---- MODULE Spec2Model ----
(***************************************************************************)
(* A model of GenPod: the aligner (text_aligner.py), the paragraph packer  *)
(* (text_processor.py), the incremental build (cli.py, generate_podcast.py,*)
(* concatenate_podcast.py) and the parallel batch build                    *)
(* (batch_generate.py).                                                    *)
(*                                                                         *)
(* Text is a sequence of one-character strings.  Cursors and indices are   *)
(* 0-based as in the Python source; the character under cursor i of s is   *)
(* s[i + 1].                                                               *)
(***************************************************************************)
EXTENDS Integers, Sequences, FiniteSets, TLC

VARIABLES
    \* align_text (text_aligner.py)
    normalized, refined, i_norm, i_ref, result,
    \* merge_paragraphs (text_processor.py): the arguments, the locals of the
    \* main loop, the number of paragraphs the loop has taken and the list
    \* returned (returned is FALSE until the function returns)
    paragraphs, min_chars, max_chars, merged, current_segment, current_length,
    para_idx, final_merged, returned,
    \* which program is running: "build_podcast", "batch_generate" or "none"
    program,
    \* the episode's files (cli.py): the text units script.md packs into, the
    \* configured voice seed, the two directories of segment text files
    \* (segments_md of a build, <episode>_segments_md of a check) and the
    \* directory of audio files
    script, seed, md_build, md_check, wav,
    \* the last run of build_podcast, the number of runs and of edits so far
    run, builds, edits,
    \* batch_generate (batch_generate.py): the tasks, the pool, the results
    \* of pool.map, the order the tasks finished in, the audio files written
    \* and the list returned, and the number of times a process has loaded
    \* the synthesis engine (chat.load of get_chat_instance)
    args_list, num_workers, next_task, worker, results, arrived, batch_wav,
    batch_run, engine_loads,
    \* merge_segments (cli.py): whether <episode>_segments_md exists (its
    \* files are md_check) and what the call did
    segments_dir_exists, merge_out,
    \* clean_text (text_processor.py): the text given and what clean_text
    \* returned for it and then for its own output
    clean_in, cleaned,
    \* compute_hash (cli.py): two synthesis requests and their keys
    requests, keys,
    \* generate_audio (generate_podcast.py): the texts handed to the
    \* waveform inference, none before the call
    infer_text,
    \* filter_markdown_metadata (text_processor.py): the lines of the content
    \* given and the lines returned, none before the call
    raw_content, filtered,
    \* apply_pronunciations within generate_audio (generate_podcast.py): the
    \* text, the user's pronunciation table and the text after the
    \* replacements, none before the call
    pron_text, pronunciations, pron_out

alignVars == <<normalized, refined, i_norm, i_ref, result>>
mergeVars == <<paragraphs, min_chars, max_chars, merged, current_segment,
               current_length, para_idx, final_merged, returned>>
buildVars == <<script, seed, md_build, md_check, wav, run, builds, edits>>
batchVars == <<args_list, num_workers, next_task, worker, results, arrived,
               batch_wav, batch_run, engine_loads>>
textVars == <<raw_content, filtered, pron_text, pronunciations, pron_out>>
toolVars == <<segments_dir_exists, merge_out, clean_in, cleaned, requests,
              keys, infer_text, textVars>>
vars == <<alignVars, mergeVars, program, buildVars, batchVars, toolVars>>

\* what an operation of one component leaves alone
notAlign == <<mergeVars, program, buildVars, batchVars, toolVars>>
notMerge == <<alignVars, program, buildVars, batchVars, toolVars>>
notBuild == <<alignVars, mergeVars, program, batchVars, toolVars>>
notBatch == <<alignVars, mergeVars, program, buildVars, toolVars>>

\* no run of build_podcast yet
NoRun ==
    [ mode |-> "none", force |-> FALSE, seed |-> 0, total |-> 0,
      units |-> <<>>,
      existed |-> {}, generated |-> {}, raised |-> 0, segment_files |-> <<>>,
      missing |-> {}, dry |-> <<>>, outcome |-> "none" ]

\* build_podcast not called
IdleBuild ==
    /\ script = <<>>
    /\ seed = 0
    /\ md_build = {}
    /\ md_check = {}
    /\ wav = {}
    /\ run = NoRun
    /\ builds = 0
    /\ edits = 0

\* merge_segments not called
NoMerge == [ called |-> FALSE, exited |-> FALSE, written |-> FALSE,
             text |-> <<>> ]

IdleMergeSegments ==
    /\ segments_dir_exists = FALSE
    /\ merge_out = NoMerge

\* clean_text not called
IdleClean ==
    /\ clean_in = <<>>
    /\ cleaned = <<>>

\* compute_hash not called
IdleHash ==
    /\ requests = <<>>
    /\ keys = <<>>

\* filter_markdown_metadata and apply_pronunciations not called
IdleText ==
    /\ raw_content = <<>>
    /\ filtered = <<>>
    /\ pron_text = <<>>
    /\ pronunciations = <<>>
    /\ pron_out = <<>>

\* none of the single functions and commands called
IdleTools ==
    /\ IdleMergeSegments
    /\ IdleClean
    /\ IdleHash
    /\ infer_text = <<>>
    /\ IdleText

\* batch_generate not called
IdleBatch ==
    /\ args_list = <<>>
    /\ num_workers = 0
    /\ next_task = 0
    /\ worker = <<>>
    /\ results = <<>>
    /\ arrived = <<>>
    /\ batch_wav = {}
    /\ batch_run =
           [ returned |-> FALSE, files |-> <<>>, success |-> 0, total |-> 0,
             joined |-> FALSE, dry |-> <<>> ]
    /\ engine_loads = 0

----------------------------------------------------------------------------
(* Python string primitives.                                               *)

MinOf(S) == CHOOSE x \in S : \A y \in S : x <= y
MaxOf(S) == CHOOSE x \in S : \A y \in S : x >= y

\* s[lo:hi] for 0 <= lo, hi (clamped as Python slices clamp)
Slice(s, lo, hi) ==
    LET h == IF hi > Len(s) THEN Len(s) ELSE hi
    IN  IF lo >= h THEN <<>> ELSE SubSeq(s, lo + 1, h)

\* s.find(c, start) for a one-character c: the lowest index >= start, or -1
Find(s, c, start) ==
    LET hits == {k \in start..(Len(s) - 1) : s[k + 1] = c}
    IN  IF hits = {} THEN -1 ELSE MinOf(hits)

\* s.endswith(t)
EndsWith(s, t) ==
    /\ Len(t) <= Len(s)
    /\ SubSeq(s, Len(s) - Len(t) + 1, Len(s)) = t

\* s.startswith(p)
StartsWith(s, p) ==
    /\ Len(p) <= Len(s)
    /\ SubSeq(s, 1, Len(p)) = p

RECURSIVE Concat(_)
\* ''.join(ss)
Concat(ss) == IF ss = <<>> THEN <<>> ELSE Head(ss) \o Concat(Tail(ss))

\* c.lower() over the characters the model draws from
LowerChar(c) ==
    CASE c = "L" -> "l"
      [] c = "B" -> "b"
      [] OTHER -> c

\* s.lower()
Lower(s) == [k \in 1..Len(s) |-> LowerChar(s[k])]

RECURSIVE StripTags(_)
\* re.sub(r'\[.*?\]', '', s): every bracket token, from a '[' to the first ']'
\* after it, is deleted; a '[' with no ']' after it stays
StripTags(s) ==
    IF s = <<>> THEN <<>>
    ELSE IF Head(s) = "[" /\ Find(s, "]", 0) # -1
         THEN StripTags(Slice(s, Find(s, "]", 0) + 1, Len(s)))
         ELSE <<Head(s)>> \o StripTags(Tail(s))

----------------------------------------------------------------------------
(* align_text: text_aligner.py                                             *)

\* the lookahead window: range(1, window) looks 1..9 characters ahead
window == 10

WHITELIST_PREFIXES ==
    { <<"b", "r", "e", "a", "k", "_">>,
      <<"l", "a", "u", "g", "h">>,
      <<"o", "r", "a", "l", "_">>,
      <<"s", "p", "e", "e", "d", "_">> }

\* any(inner_tag.startswith(p) for p in WHITELIST_PREFIXES), inner_tag lowered
IsWhitelisted(tag_content) ==
    LET inner_tag == Lower(Slice(tag_content, 1, Len(tag_content) - 1))
    IN  \E p \in WHITELIST_PREFIXES : StartsWith(inner_tag, p)

RECURSIVE DrainTagsUnfiltered(_, _, _)
\* a slip of the inner while loop: the whitelist check left out
DrainTagsUnfiltered(ref, i, res) ==
    IF i < Len(ref) /\ ref[i + 1] = "["
    THEN LET tag_end == Find(ref, "]", i)
             tag_content == Slice(ref, i, tag_end + 1)
         IN  IF tag_end = -1
             THEN [i_ref |-> i, result |-> res]
             ELSE IF EndsWith(res, tag_content)
             THEN DrainTagsUnfiltered(ref, tag_end + 1, res)
             ELSE DrainTagsUnfiltered(ref, tag_end + 1, res \o tag_content)
    ELSE [i_ref |-> i, result |-> res]

RECURSIVE DrainTags(_, _, _)
\* the inner while loop: every tag at the refined cursor is consumed, the
\* whitelisted ones that do not repeat the end of the output are emitted
DrainTags(ref, i, res) ==
    IF i < Len(ref) /\ ref[i + 1] = "["
    THEN LET tag_end == Find(ref, "]", i)
             tag_content == Slice(ref, i, tag_end + 1)
         IN  IF tag_end = -1
             THEN [i_ref |-> i, result |-> res]            \* malformed tag: break
             ELSE IF ~IsWhitelisted(tag_content)
             THEN DrainTags(ref, tag_end + 1, res)
             ELSE IF EndsWith(res, tag_content)
             THEN DrainTags(ref, tag_end + 1, res)
             ELSE DrainTags(ref, tag_end + 1, res \o tag_content)
    ELSE [i_ref |-> i, result |-> res]

char_norm == normalized[i_norm + 1]

\* the loop body is at a manual tag of normalized
AtNormTag == char_norm = "[" /\ Find(normalized, "]", i_norm) # -1

\* the refined cursor and the output after the tags at the cursor are drained
Drained == DrainTags(refined, i_ref, result)

\* for k in range(1, window): the first k with refined[i_ref + k] == char_norm
found_in_ref(ir) ==
    LET ks == {k \in 1..(window - 1) :
                  /\ ir + k < Len(refined)
                  /\ refined[ir + k + 1] = char_norm}
    IN  IF ks = {} THEN -1 ELSE MinOf(ks)

\* for k in range(1, window): the first k with normalized[i_norm + k] == char_ref
found_in_norm(ir) ==
    LET ks == {k \in 1..(window - 1) :
                  /\ i_norm + k < Len(normalized)
                  /\ normalized[i_norm + k + 1] = refined[ir + 1]}
    IN  IF ks = {} THEN -1 ELSE MinOf(ks)

\* step 0: a tag of normalized is copied whole; an identical tag at the
\* refined cursor is consumed with it
NormTag ==
    /\ i_norm < Len(normalized)
    /\ AtNormTag
    /\ LET tag_end == Find(normalized, "]", i_norm)
           tag_content == Slice(normalized, i_norm, tag_end + 1)
           ref_tag_end == Find(refined, "]", i_ref)
       IN  /\ result' = result \o tag_content
           /\ i_norm' = tag_end + 1
           /\ i_ref' = IF /\ i_ref < Len(refined)
                          /\ refined[i_ref + 1] = "["
                          /\ ref_tag_end # -1
                          /\ Slice(refined, i_ref, ref_tag_end + 1) = tag_content
                       THEN ref_tag_end + 1
                       ELSE i_ref
    /\ UNCHANGED <<normalized, refined, notAlign>>

\* the loop body below step 0, decided on the drained refined cursor d.i_ref:
\* which of the branches of lines 83-131 the iteration takes
Branch(d) ==
    IF d.i_ref >= Len(refined) THEN "exhausted"
    ELSE IF refined[d.i_ref + 1] = char_norm THEN "match"
    ELSE LET fr == found_in_ref(d.i_ref)
             fn == found_in_norm(d.i_ref)
         IN  IF fr # -1 /\ (fn = -1 \/ fr < fn) THEN "hallucination"
             ELSE IF fn # -1 THEN "deletion"
             ELSE "mutation"

\* refined exhausted after the tags were drained: the normalized character is kept
RefExhausted ==
    /\ i_norm < Len(normalized)
    /\ ~AtNormTag
    /\ LET d == Drained
       IN  /\ Branch(d) = "exhausted"
           /\ result' = d.result \o <<char_norm>>
           /\ i_norm' = i_norm + 1
           /\ i_ref' = d.i_ref
    /\ UNCHANGED <<normalized, refined, notAlign>>

\* step 2: both cursors at the same character
Match ==
    /\ i_norm < Len(normalized)
    /\ ~AtNormTag
    /\ LET d == Drained
       IN  /\ Branch(d) = "match"
           /\ result' = d.result \o <<refined[d.i_ref + 1]>>
           /\ i_norm' = i_norm + 1
           /\ i_ref' = d.i_ref + 1
    /\ UNCHANGED <<normalized, refined, notAlign>>

\* step 3, first branch: refined has extra characters, skip one of them
Hallucination ==
    /\ i_norm < Len(normalized)
    /\ ~AtNormTag
    /\ LET d == Drained
       IN  /\ Branch(d) = "hallucination"
           /\ result' = d.result
           /\ i_norm' = i_norm
           /\ i_ref' = d.i_ref + 1
    /\ UNCHANGED <<normalized, refined, notAlign>>

\* a slip of the second branch: i_norm += 1 left out
DeletionNoAdvance ==
    /\ i_norm < Len(normalized)
    /\ ~AtNormTag
    /\ LET d == Drained
       IN  /\ Branch(d) = "deletion"
           /\ result' = d.result \o <<char_norm>>
           /\ i_norm' = i_norm
           /\ i_ref' = d.i_ref
    /\ UNCHANGED <<normalized, refined, notAlign>>

\* step 3, second branch: refined dropped characters, restore from normalized
Deletion ==
    /\ i_norm < Len(normalized)
    /\ ~AtNormTag
    /\ LET d == Drained
       IN  /\ Branch(d) = "deletion"
           /\ result' = d.result \o <<char_norm>>
           /\ i_norm' = i_norm + 1
           /\ i_ref' = d.i_ref
    /\ UNCHANGED <<normalized, refined, notAlign>>

\* a slip of the last branch: the refined character is emitted
MutationTrustRef ==
    /\ i_norm < Len(normalized)
    /\ ~AtNormTag
    /\ LET d == Drained
       IN  /\ Branch(d) = "mutation"
           /\ result' = d.result \o <<refined[d.i_ref + 1]>>
           /\ i_norm' = i_norm + 1
           /\ i_ref' = d.i_ref + 1
    /\ UNCHANGED <<normalized, refined, notAlign>>

\* step 3, last branch: total mismatch, trust normalized and advance both
Mutation ==
    /\ i_norm < Len(normalized)
    /\ ~AtNormTag
    /\ LET d == Drained
       IN  /\ Branch(d) = "mutation"
           /\ result' = d.result \o <<char_norm>>
           /\ i_norm' = i_norm + 1
           /\ i_ref' = d.i_ref + 1
    /\ UNCHANGED <<normalized, refined, notAlign>>

\* while i_norm < len_norm fails: align_text returns result
AlignDone == i_norm >= Len(normalized)

----------------------------------------------------------------------------
(* The inputs of align_text.                                               *)

MaxNormPieces == 3
MaxRefPieces == 2

LaughTag == <<"[", "l", "a", "u", "g", "h", "]">>
LaughTagUpper == <<"[", "L", "a", "u", "g", "h", "]">>
SpeakerTag == <<"[", "s", "p", "e", "a", "k", "e", "r", "_", "2", "]">>

NormPieces == { <<"a">>, <<"b">>, <<"[">>, LaughTag, SpeakerTag }
RefPieces == { <<"a">>, <<"c">>, <<"[">>, LaughTag, LaughTagUpper, SpeakerTag }

\* the texts made of at most n pieces
TextsOf(pieces, n) ==
    { Concat(ps) : ps \in UNION { [1..k -> pieces] : k \in 0..n } }

\* merge_paragraphs not called
IdleMerge ==
    /\ paragraphs = <<>>
    /\ min_chars = 0
    /\ max_chars = 0
    /\ merged = <<>>
    /\ current_segment = <<>>
    /\ current_length = 0
    /\ para_idx = 0
    /\ final_merged = <<>>
    /\ returned = FALSE

InitAlign ==
    /\ IdleMerge
    /\ IdleTools
    /\ program = "none"
    /\ IdleBuild
    /\ IdleBatch
    /\ normalized \in TextsOf(NormPieces, MaxNormPieces)
    /\ refined \in TextsOf(RefPieces, MaxRefPieces)
    /\ i_norm = 0
    /\ i_ref = 0
    /\ result = <<>>

NextAlign ==
    \/ NormTag
    \/ RefExhausted
    \/ Match
    \/ Hallucination
    \/ Deletion
    \/ Mutation

SpecAlign == InitAlign /\ [][NextAlign]_vars

----------------------------------------------------------------------------
(* merge_paragraphs: text_processor.py                                     *)
(*                                                                         *)
(* The model's characters: "." is the full stop U+3002, "," the fullwidth  *)
(* comma U+FF0C, ";" the enumeration comma U+3001, "\n" the line break.    *)

FullStop == "."
Comma == ","
EnumComma == ";"
NL == "\n"
Whitespace == {NL, " "}

UvBreak == <<"[", "u", "v", "_", "b", "r", "e", "a", "k", "]">>

\* the markers split_long_text looks for, in the order of the for loop
CutMarkers == << <<FullStop>>, <<Comma>>, UvBreak, <<FullStop>>, <<EnumComma>> >>

\* s.strip()
Strip(s) ==
    LET keep == {k \in 1..Len(s) : s[k] \notin Whitespace}
    IN  IF keep = {} THEN <<>> ELSE SubSeq(s, MinOf(keep), MaxOf(keep))

RECURSIVE Split(_, _)
\* s.split(c) for a one-character separator c
Split(s, c) ==
    LET pos == Find(s, c, 0)
    IN  IF pos = -1 THEN <<s>>
        ELSE <<Slice(s, 0, pos)>> \o Split(Slice(s, pos + 1, Len(s)), c)

RECURSIVE Join(_, _)
\* sep.join(ss)
Join(ss, sep) ==
    IF ss = <<>> THEN <<>>
    ELSE IF Len(ss) = 1 THEN Head(ss)
    ELSE Head(ss) \o sep \o Join(Tail(ss), sep)

\* [f(x) for x in ss if x.strip()] with f = strip
StrippedNonEmpty(ss) ==
    LET keep == SelectSeq(ss, LAMBDA x : Strip(x) # <<>>)
    IN  [k \in 1..Len(keep) |-> Strip(keep[k])]

\* s.rfind(m, 0, end): the highest index i with s[i:i+len(m)] == m that
\* lies within s[0:end], or -1
RFind(s, m, end) ==
    LET e == IF end > Len(s) THEN Len(s) ELSE end
        hits == {i \in 0..(e - Len(m)) : Slice(s, i, i + Len(m)) = m}
    IN  IF hits = {} THEN -1 ELSE MaxOf(hits)

RECURSIVE CutPosFrom(_, _, _)
\* lines 186-191: the first marker, in list order, whose last occurrence
\* before max_len lies beyond 70% of max_len decides the cut; else max_len.
\* pos > max_len * 0.7 is compared in integers (exact for max_len < 90).
CutPosFrom(line, max_len, m) ==
    IF m > Len(CutMarkers) THEN max_len
    ELSE LET pos == RFind(line, CutMarkers[m], max_len)
         IN  IF 10 * pos > 7 * max_len
             THEN pos + Len(CutMarkers[m])
             ELSE CutPosFrom(line, max_len, m + 1)

CutPos(line, max_len) == CutPosFrom(line, max_len, 1)

\* lines 158-164: the text as lines, or as sentences re-terminated by a full stop
LinesOf(text) ==
    IF \E k \in 1..Len(text) : text[k] = NL
    THEN StrippedNonEmpty(Split(text, NL))
    ELSE LET ss == StrippedNonEmpty(Split(text, FullStop))
         IN  [k \in 1..Len(ss) |-> ss[k] \o <<FullStop>>]

\* the recursion-depth guard of split_long_text
MaxDepth == 10

RECURSIVE split_long_text(_, _, _)
RECURSIVE SplitLoop(_, _, _, _)

\* the for loop of split_long_text over lines[k..], with the locals
\* st = [result, current, current_len], and the flush after the loop
SplitLoop(lines, k, max_len, depth_st) ==
    LET depth == depth_st[1]
        st == depth_st[2]
    IN
    IF k > Len(lines)
    THEN \* lines 235-242
         IF st.current = <<>> THEN st.result
         ELSE LET seg == Join(st.current, <<NL>>)
              IN  IF Len(seg) > max_len
                  THEN st.result \o split_long_text(seg, max_len, depth + 1)
                  ELSE st.result \o <<seg>>
    ELSE
    LET line == lines[k]
        line_len == Len(line)
    IN
    IF line_len > max_len
    THEN \* lines 174-205
         LET res1 == IF st.current # <<>>
                     THEN st.result \o <<Join(st.current, <<NL>>)>>
                     ELSE st.result
             cut_pos == CutPos(line, max_len)
             first_part == Strip(Slice(line, 0, cut_pos))
             remaining_part == Strip(Slice(line, cut_pos, Len(line)))
             res2 == IF first_part # <<>> THEN res1 \o <<first_part>> ELSE res1
         IN  IF remaining_part = <<>>
             THEN SplitLoop(lines, k + 1, max_len,
                      <<depth, [result |-> res2, current |-> <<>>, current_len |-> 0]>>)
             ELSE IF Len(remaining_part) > max_len
             THEN SplitLoop(lines, k + 1, max_len,
                      <<depth, [result |-> res2 \o split_long_text(remaining_part, max_len, depth + 1),
                                current |-> <<>>, current_len |-> 0]>>)
             ELSE SplitLoop(lines, k + 1, max_len,
                      <<depth, [result |-> res2, current |-> <<remaining_part>>,
                                current_len |-> Len(remaining_part)]>>)
    ELSE IF st.current_len + line_len >= max_len /\ st.current # <<>>
    THEN \* lines 209-229
         LET seg == Join(st.current, <<NL>>)
             seg_len == Len(seg)
         IN  IF seg_len <= max_len /\ seg_len + line_len + 1 <= max_len
             THEN SplitLoop(lines, k + 1, max_len,
                      <<depth, [result |-> st.result,
                                current |-> Append(st.current, line),
                                current_len |-> st.current_len + line_len]>>)
             ELSE SplitLoop(lines, k + 1, max_len,
                      <<depth, [result |-> IF seg_len <= max_len
                                           THEN st.result \o <<seg>>
                                           ELSE st.result \o split_long_text(seg, max_len, depth + 1),
                                current |-> <<line>>,
                                current_len |-> line_len]>>)
    ELSE \* lines 230-232
         SplitLoop(lines, k + 1, max_len,
             <<depth, [result |-> st.result,
                       current |-> Append(st.current, line),
                       current_len |-> st.current_len + line_len]>>)

\* split_long_text(text, max_len, depth): lines 141-244
split_long_text(text, max_len, depth) ==
    IF depth > MaxDepth
    THEN IF Len(text) > max_len THEN <<Slice(text, 0, max_len)>> ELSE <<text>>
    ELSE IF Len(text) <= max_len THEN <<text>>
    ELSE SplitLoop(LinesOf(text), 1, max_len,
             <<depth, [result |-> <<>>, current |-> <<>>, current_len |-> 0]>>)

\* a slip of the separator: one line break
ParaSepOneBreak == <<NL>>

ParaSep == <<NL, NL>>

\* the buffer, flushed: lines 260-265, 275-279
FlushSegment(seg_text, max_len) ==
    IF Len(seg_text) > max_len
    THEN split_long_text(seg_text, max_len, 0)
    ELSE <<seg_text>>

para == paragraphs[para_idx + 1]
para_length == Len(para)

InLoop == ~returned /\ para_idx < Len(paragraphs)

\* lines 257-270: a paragraph longer than max_chars; the buffer is flushed
\* and the paragraph's slices are all appended to merged
ParaTooLong ==
    /\ InLoop
    /\ para_length > max_chars
    /\ merged' = (IF current_segment # <<>>
                  THEN merged \o FlushSegment(Join(current_segment, ParaSep), max_chars)
                  ELSE merged)
                 \o split_long_text(para, max_chars, 0)
    /\ current_segment' = <<>>
    /\ current_length' = 0
    /\ para_idx' = para_idx + 1
    /\ UNCHANGED <<paragraphs, min_chars, max_chars, final_merged, returned, notMerge>>

\* lines 273-281: the paragraph does not fit the buffer; the buffer is
\* flushed and the paragraph starts a new one
ParaFlush ==
    /\ InLoop
    /\ para_length <= max_chars
    /\ current_length + para_length > max_chars
    /\ current_segment # <<>>
    /\ merged' = merged \o FlushSegment(Join(current_segment, ParaSep), max_chars)
    /\ current_segment' = <<para>>
    /\ current_length' = para_length
    /\ para_idx' = para_idx + 1
    /\ UNCHANGED <<paragraphs, min_chars, max_chars, final_merged, returned, notMerge>>

\* lines 282-297: the paragraph joins the buffer, which is flushed at once
\* when it reaches target_chars = 0.75 * max_chars (or 0.9 * max_chars)
ParaAccumulate ==
    /\ InLoop
    /\ para_length <= max_chars
    /\ ~(current_length + para_length > max_chars /\ current_segment # <<>>)
    /\ LET seg == Append(current_segment, para)
           len == current_length + para_length
       IN  IF 4 * len >= 3 * max_chars \/ 10 * len >= 9 * max_chars
           THEN /\ merged' = merged \o FlushSegment(Join(seg, ParaSep), max_chars)
                /\ current_segment' = <<>>
                /\ current_length' = 0
           ELSE /\ merged' = merged
                /\ current_segment' = seg
                /\ current_length' = len
    /\ para_idx' = para_idx + 1
    /\ UNCHANGED <<paragraphs, min_chars, max_chars, final_merged, returned, notMerge>>

\* lines 300-313: the buffer left when the input ends
MergedAtEnd ==
    IF current_segment = <<>> THEN merged
    ELSE LET seg_text == Join(current_segment, ParaSep)
         IN  IF Len(seg_text) > max_chars
             THEN merged \o split_long_text(seg_text, max_chars, 0)
             ELSE IF Len(seg_text) < min_chars /\ merged # <<>>
                     /\ Len(merged[Len(merged)]) + Len(seg_text) <= max_chars
             THEN [merged EXCEPT ![Len(merged)] = @ \o ParaSep \o seg_text]
             ELSE Append(merged, seg_text)

\* the final check left out: merged is returned as it is
FinalCheckSkipped(segs, max_len) == segs

RECURSIVE FinalCheck(_, _)
\* lines 316-321: every unit longer than max_chars is split once more
FinalCheck(segs, max_len) ==
    IF segs = <<>> THEN <<>>
    ELSE (IF Len(Head(segs)) > max_len
          THEN split_long_text(Head(segs), max_len, 0)
          ELSE <<Head(segs)>>)
         \o FinalCheck(Tail(segs), max_len)

\* lines 299-323: the loop is over; merge_paragraphs returns final_merged
\* (lines 138-139: an empty paragraph list returns [] at once)
MergeReturn ==
    /\ ~returned
    /\ para_idx = Len(paragraphs)
    /\ LET m == MergedAtEnd
       IN  /\ merged' = m
           /\ final_merged' = FinalCheck(m, max_chars)
    /\ returned' = TRUE
    /\ UNCHANGED <<paragraphs, min_chars, max_chars, current_segment,
                   current_length, para_idx, notMerge>>

----------------------------------------------------------------------------
(* The inputs of merge_paragraphs.                                         *)

MaxParas == 3
MaxParaLen == 3
MaxTotalLen == 4
MaxChars == 4

ParaChars == {"a", FullStop, NL}

\* the paragraphs that split_by_paragraph and clean_text can hand on: no
\* white space at either end; a paragraph of punctuation alone is cleaned to
\* the empty text
ParagraphTexts ==
    { p \in UNION { [1..n -> ParaChars] : n \in 0..MaxParaLen } : Strip(p) = p }

\* the lists of at most n paragraphs with at most budget characters in all
RECURSIVE ListsWithin(_, _)
ListsWithin(n, budget) ==
    IF n = 0 THEN { <<>> }
    ELSE { <<>> } \cup
         UNION { { <<p>> \o rest : rest \in ListsWithin(n - 1, budget - Len(p)) } :
                     p \in { q \in ParagraphTexts : Len(q) <= budget } }

ParagraphLists == ListsWithin(MaxParas, MaxTotalLen)

\* align_text not called
IdleAlign ==
    /\ normalized = <<>>
    /\ refined = <<>>
    /\ i_norm = 0
    /\ i_ref = 0
    /\ result = <<>>

\* c repeated n times: c * n
Rep(c, n) == [k \in 1..n |-> c]

\* three paragraphs of thirty characters packed with min_chars 50 and
\* max_chars 70
PackingScenario ==
    [ paragraphs |-> << Rep("A", 30), Rep("B", 30), Rep("C", 30) >>,
      min_chars |-> 50, max_chars |-> 70 ]

\* a buffer that reaches the target while the next paragraph still fits
TargetScenario ==
    [ paragraphs |-> << Rep("a", 6), Rep("a", 1), Rep("a", 7) >>,
      min_chars |-> 6, max_chars |-> 8 ]
\* a line with a full stop between half the limit and 0.7 of the limit
CutScenario ==
    [ paragraphs |-> << <<"a", "a", FullStop, "a", "a", NL, "a">> >>,
      min_chars |-> 1, max_chars |-> 4 ]
MergeScenarios == {PackingScenario, TargetScenario, CutScenario}
InitMerge ==
    /\ IdleAlign
    /\ IdleTools
    /\ program = "none"
    /\ IdleBuild
    /\ IdleBatch
    /\ \/ /\ paragraphs \in ParagraphLists
          /\ max_chars \in 1..MaxChars
          /\ min_chars \in 1..MaxChars
       \/ \E call \in MergeScenarios :
              /\ paragraphs = call.paragraphs
              /\ max_chars = call.max_chars
              /\ min_chars = call.min_chars
    /\ merged = <<>>
    /\ current_segment = <<>>
    /\ current_length = 0
    /\ para_idx = 0
    /\ final_merged = <<>>
    /\ returned = FALSE

NextMerge ==
    \/ ParaTooLong
    \/ ParaFlush
    \/ ParaAccumulate
    \/ MergeReturn

SpecMerge == InitMerge /\ [][NextMerge]_vars

----------------------------------------------------------------------------
(* build_podcast: cli.py, generate_podcast.py, concatenate_podcast.py      *)

Digits == <<"0", "1", "2", "3", "4", "5", "6", "7", "8", "9">>

\* str(n) of a natural number, as the f-string of compute_hash formats it
RECURSIVE Str(_)
Str(n) ==
    IF n < 10 THEN <<Digits[n + 1]>>
    ELSE Str(n \div 10) \o <<Digits[(n % 10) + 1]>>

\* compute_hash digests the string f"{text}{seed}"; the digest stands for
\* the string it is computed from
compute_hash(text, sd) == text \o Str(sd)

\* a text that is empty once stripped
Empty == <<>>

\* the audio file names of the segments directory: segment_{i:03d}.wav and
\* segment_{seg_hash}.wav
OrdinalWav(i) == <<"#">> \o Str(i)
HashWav(seg_hash) == seg_hash

Exists(files, name) == \E f \in files : f.name = name
FileAt(files, name) == CHOOSE f \in files : f.name = name

\* a file is written: whole, or cut short when the writer fails part way
Save(files, name, text, sd, whole) ==
    { f \in files : f.name # name }
        \cup { [name |-> name, text |-> text, seed |-> sd, whole |-> whole] }

\* what a call of generate_audio on a non-empty text can do: return after a
\* complete save, raise before saving, raise while torchaudio.save writes
Outcomes == {"ok", "raises", "save_fails"}

\* generate_audio: the audio files afterwards and whether the call raised
generate_audio(files, text, sd, output_file, outcome) ==
    IF text = Empty THEN [wav |-> files, raised |-> FALSE]
    ELSE IF outcome = "raises" THEN [wav |-> files, raised |-> TRUE]
    ELSE IF outcome = "save_fails"
         THEN [wav |-> Save(files, output_file, text, sd, FALSE),
               raised |-> TRUE]
    ELSE [wav |-> Save(files, output_file, text, sd, TRUE), raised |-> FALSE]

\* the locals of build_podcast before its loop
LoopStart(md, files) ==
    [ md |-> md, wav |-> files, units |-> <<>>, existed |-> {},
      generated |-> {}, raised |-> 0, segment_files |-> <<>> ]

\* one turn of a loop of build_podcast over unit i with text text and audio
\* file audio_path; an exception of generate_audio leaves the function
LoopTurn(st, i, text, md, audio_path, sd, skip, outcome) ==
    LET g == IF skip THEN [wav |-> st.wav, raised |-> FALSE]
             ELSE generate_audio(st.wav, text, sd, audio_path, outcome)
    IN [ md |-> md,
         wav |-> g.wav,
         units |-> Append(st.units, text),
         existed |-> IF Exists(st.wav, audio_path)
                     THEN st.existed \cup {i} ELSE st.existed,
         generated |-> IF skip THEN st.generated ELSE st.generated \cup {i},
         raised |-> IF g.raised THEN i ELSE 0,
         segment_files |-> IF g.raised THEN st.segment_files
                           ELSE Append(st.segment_files, audio_path) ]

OutcomeAt(fail, i) == IF fail.at = i THEN fail.kind ELSE "ok"

\* the loop over a single segment file: no existence check, audio named by
\* the hash
RECURSIVE TargetedLoop(_, _, _, _, _)
TargetedLoop(i, paras, sd, fail, st) ==
    IF i > Len(paras) \/ st.raised # 0 THEN st
    ELSE LET text == paras[i]
             seg_hash == compute_hash(text, sd)
             audio_path == HashWav(seg_hash)
         IN TargetedLoop(i + 1, paras, sd, fail,
                LoopTurn(st, i, text, st.md, audio_path, sd, FALSE,
                         OutcomeAt(fail, i)))

\* the loop over the files of a segment directory: audio named by position
RECURSIVE SegmentsDirLoop(_, _, _, _, _, _)
SegmentsDirLoop(i, paras, sd, force, fail, st) ==
    IF i > Len(paras) \/ st.raised # 0 THEN st
    ELSE LET text == paras[i]
             audio_path == OrdinalWav(i)
             skip == Exists(st.wav, audio_path) /\ ~force
         IN SegmentsDirLoop(i + 1, paras, sd, force, fail,
                LoopTurn(st, i, text, st.md, audio_path, sd, skip,
                         OutcomeAt(fail, i)))

NoFile == [ordinal |-> 0, key |-> <<>>, content |-> <<>>]

\* the loop of a full build: a segment text file of ordinal i, if there is
\* one, replaces the text of the script; the text is saved under its hash
\* unless that file exists; audio named by ordinal
RECURSIVE NormalLoop(_, _, _, _, _, _, _)
NormalLoop(i, paras, pick, sd, force, fail, st) ==
    IF i > Len(paras) \/ st.raised # 0 THEN st
    ELSE LET text == IF pick[i] # NoFile THEN pick[i].content ELSE paras[i]
             seg_hash == compute_hash(text, sd)
             md == IF \E f \in st.md : f.ordinal = i /\ f.key = seg_hash
                   THEN st.md
                   ELSE st.md \cup { [ordinal |-> i, key |-> seg_hash,
                                      content |-> text] }
             audio_path == OrdinalWav(i)
             skip == Exists(st.wav, audio_path) /\ ~force
         IN NormalLoop(i + 1, paras, pick, sd, force, fail,
                LoopTurn(st, i, text, md, audio_path, sd, skip,
                         OutcomeAt(fail, i)))

\* the loading loop of concatenate_segments: a file of the list that does
\* not exist is warned about and left out; loading a file that was cut short
\* either yields what is there or raises
RECURSIVE LoadSegments(_, _, _, _)
LoadSegments(segment_files, files, load_fails, acc) ==
    IF segment_files = <<>> THEN acc
    ELSE LET seg_file == Head(segment_files)
         IN IF ~Exists(files, seg_file)
            THEN LoadSegments(Tail(segment_files), files, load_fails,
                     [acc EXCEPT !.missing = @ \cup {seg_file}])
            ELSE IF ~FileAt(files, seg_file).whole /\ load_fails
            THEN [acc EXCEPT !.raised = TRUE]
            ELSE LoadSegments(Tail(segment_files), files, load_fails,
                     [acc EXCEPT !.segments =
                         Append(@, FileAt(files, seg_file))])

\* the run of build_podcast from its loop on: an exception of generate_audio
\* or of the loading leaves the function, otherwise the segments loaded are
\* joined in their order and the build is logged as complete
AfterLoop(mode, force, sd, n, st, load_fails) ==
    LET c == IF st.raised # 0
             THEN [segments |-> <<>>, missing |-> {}, raised |-> TRUE]
             ELSE LoadSegments(st.segment_files, st.wav, load_fails,
                      [segments |-> <<>>, missing |-> {}, raised |-> FALSE])
    IN [ mode |-> mode, force |-> force, seed |-> sd, total |-> n,
         units |-> st.units,
         existed |-> st.existed, generated |-> st.generated,
         raised |-> st.raised, segment_files |-> st.segment_files,
         missing |-> c.missing,
         dry |-> IF c.raised THEN <<>> ELSE c.segments,
         outcome |-> IF c.raised THEN "aborted" ELSE "complete" ]

\* the failures one run can meet: none, or generate_audio raising at unit at
Fails(n) ==
    { [at |-> 0, kind |-> "ok"] }
        \cup { [at |-> k, kind |-> x] :
                   k \in 1..n, x \in Outcomes \ {"ok"} }

\* whether loading can fail: only a file that was cut short can fail to load
LoadFailures(files) ==
    IF \E f \in files : ~f.whole THEN BOOLEAN ELSE {FALSE}

\* glob(f"segment_{i:03d}_*.md")[0] for every ordinal: any file of the
\* ordinal, the directory listing having no order
Picks(md, n) ==
    { p \in [1..n -> md \cup {NoFile}] :
        \A i \in 1..n :
            IF \E f \in md : f.ordinal = i
            THEN p[i] # NoFile /\ p[i].ordinal = i
            ELSE p[i] = NoFile }

\* sorted(glob("segment_*.md")): by ordinal, two files of one ordinal in the
\* order of their digests, which is left open
RECURSIVE SortedGlob(_)
SortedGlob(md) ==
    IF md = {} THEN { <<>> }
    ELSE LET m == MinOf({ f.ordinal : f \in md })
         IN UNION { { <<f>> \o t : t \in SortedGlob(md \ {f}) } :
                        f \in { g \in md : g.ordinal = m } }

Contents(md_files) == [k \in 1..Len(md_files) |-> md_files[k].content]

MaxUnits == 2
MaxBuilds == 2
MaxEdits == 1
UnitTexts == { Empty, <<"a">>, <<"b">> }
\* the voice_seed of the default configuration, and another one
DefaultSeed == 2222
Seeds == { DefaultSeed, 7 }
Scripts == UNION { [1..n -> UnitTexts] : n \in 1..MaxUnits }

\* genpod build <episode directory>: the full build from script.md
BuildScript ==
    /\ program = "build_podcast"
    /\ builds < MaxBuilds
    /\ \E force \in BOOLEAN, fail \in Fails(Len(script)),
          pick \in Picks(md_build, Len(script)), load_fails \in LoadFailures(wav) :
          LET st == NormalLoop(1, script, pick, seed, force, fail,
                               LoopStart(md_build, wav))
          IN /\ md_build' = st.md
             /\ wav' = st.wav
             /\ run' = AfterLoop("script", force, seed, Len(script), st,
                                 load_fails)
    /\ builds' = builds + 1
    /\ UNCHANGED <<script, seed, md_check, edits, notBuild>>

\* genpod build <episode>_segments_md: every segment text file of the
\* directory, sorted, is a unit
BuildSegmentsDir ==
    /\ program = "build_podcast"
    /\ builds < MaxBuilds
    /\ md_check # {}
    /\ \E md_files \in SortedGlob(md_check), force \in BOOLEAN,
          load_fails \in LoadFailures(wav) :
          \E fail \in Fails(Len(md_files)) :
              LET st == SegmentsDirLoop(1, Contents(md_files), seed, force,
                                        fail, LoopStart(md_check, wav))
              IN /\ wav' = st.wav
                 /\ run' = AfterLoop("segments_dir", force, seed,
                                     Len(md_files), st, load_fails)
    /\ builds' = builds + 1
    /\ UNCHANGED <<script, seed, md_build, md_check, edits, notBuild>>

\* genpod build <episode>_segments_md/segment_*.md: one segment text file is
\* the only unit
BuildSegmentFile ==
    /\ program = "build_podcast"
    /\ builds < MaxBuilds
    /\ \E input \in md_check, force \in BOOLEAN, fail \in Fails(1),
          load_fails \in LoadFailures(wav) :
          LET st == TargetedLoop(1, <<input.content>>, seed, fail,
                                 LoopStart(md_check, wav))
          IN /\ wav' = st.wav
             /\ run' = AfterLoop("segment_file", force, seed, 1, st,
                                 load_fails)
    /\ builds' = builds + 1
    /\ UNCHANGED <<script, seed, md_build, md_check, edits, notBuild>>

\* genpod check: every unit of the script is written to the check
\* directory under its ordinal and hash, over a file of that name
CheckScript ==
    /\ program = "build_podcast"
    /\ LET written == { [ordinal |-> i,
                         key |-> compute_hash(script[i], seed),
                         content |-> script[i]] : i \in 1..Len(script) }
       IN md_check' =
              { f \in md_check :
                  ~\E g \in written : g.ordinal = f.ordinal /\ g.key = f.key }
                  \cup written
    /\ md_check' # md_check
    /\ UNCHANGED <<script, seed, md_build, wav, run, builds, edits, notBuild>>

\* the author rewrites script.md: it packs into other units
EditScript ==
    /\ program = "build_podcast"
    /\ edits < MaxEdits
    /\ script' \in Scripts \ {script}
    /\ edits' = edits + 1
    /\ UNCHANGED <<seed, md_build, md_check, wav, run, builds, notBuild>>

\* the author sets another voice_seed in genpod.toml
EditSeed ==
    /\ program = "build_podcast"
    /\ edits < MaxEdits
    /\ seed' \in Seeds \ {seed}
    /\ edits' = edits + 1
    /\ UNCHANGED <<script, md_build, md_check, wav, run, builds, notBuild>>

Rewritten(md, f, content) == (md \ {f}) \cup { [f EXCEPT !.content = content] }

\* the author edits a segment text file that a build saved
EditBuildSegment ==
    /\ program = "build_podcast"
    /\ edits < MaxEdits
    /\ \E f \in md_build, content \in UnitTexts :
          /\ content # f.content
          /\ md_build' = Rewritten(md_build, f, content)
    /\ edits' = edits + 1
    /\ UNCHANGED <<script, seed, md_check, wav, run, builds, notBuild>>

\* the author edits a segment text file that a check saved
EditCheckSegment ==
    /\ program = "build_podcast"
    /\ edits < MaxEdits
    /\ \E f \in md_check, content \in UnitTexts :
          /\ content # f.content
          /\ md_check' = Rewritten(md_check, f, content)
    /\ edits' = edits + 1
    /\ UNCHANGED <<script, seed, md_build, wav, run, builds, notBuild>>

InitBuild ==
    /\ IdleAlign
    /\ IdleTools
    /\ IdleMerge
    /\ IdleBatch
    /\ program = "build_podcast"
    /\ script \in Scripts
    /\ seed = DefaultSeed
    /\ md_build = {}
    /\ md_check = {}
    /\ wav = {}
    /\ run = NoRun
    /\ builds = 0
    /\ edits = 0

NextBuild ==
    \/ BuildScript
    \/ BuildSegmentsDir
    \/ BuildSegmentFile
    \/ CheckScript
    \/ EditScript
    \/ EditSeed
    \/ EditBuildSegment
    \/ EditCheckSegment

SpecBuild == InitBuild /\ [][NextBuild]_vars

----------------------------------------------------------------------------
(* batch_generate: batch_generate.py                                       *)

MaxTasks == 3
MaxWorkers == 2

\* the default seed of batch_generate
BatchSeed == 7470000

\* what generate_segment returns for a failed task
NoneResult == [index |-> 0, output_file |-> <<>>]

\* batch_generate has not returned
NotReturned ==
    [ returned |-> FALSE, files |-> <<>>, success |-> 0, total |-> 0,
      joined |-> FALSE, dry |-> <<>> ]

\* a free worker of the pool takes the next task of args_list
TakeTask(w) ==
    /\ program = "batch_generate"
    /\ worker[w] = 0
    /\ next_task <= Len(args_list)
    /\ worker' = [worker EXCEPT ![w] = next_task]
    /\ next_task' = next_task + 1
    /\ UNCHANGED <<args_list, num_workers, results, arrived, batch_wav,
                   batch_run, engine_loads, notBatch>>

\* generate_segment: the child process exits with 1 on an empty text and on
\* an exception of generate_audio, and the task then yields None; pool.map
\* puts the result at the position of the task.  The child is a new Python
\* process whose _chat_instance is None, so generate_audio loads the engine
GenerateSegment(w) ==
    /\ program = "batch_generate"
    /\ worker[w] # 0
    /\ \E outcome \in Outcomes :
          LET segment_index == worker[w]
              segment_text == args_list[segment_index]
              output_file == OrdinalWav(segment_index)
              g == IF segment_text = Empty
                   THEN [wav |-> batch_wav, raised |-> TRUE]
                   ELSE generate_audio(batch_wav, segment_text, BatchSeed,
                                       output_file, outcome)
          IN /\ batch_wav' = g.wav
             /\ results' =
                    [results EXCEPT ![segment_index] =
                        IF g.raised THEN NoneResult
                        ELSE [index |-> segment_index,
                              output_file |-> output_file]]
             /\ arrived' = Append(arrived, segment_index)
             /\ engine_loads' = IF segment_text = Empty THEN engine_loads
                                ELSE engine_loads + 1
    /\ worker' = [worker EXCEPT ![w] = 0]
    /\ UNCHANGED <<args_list, num_workers, next_task, batch_run, notBatch>>

\* sorted(rs, key=lambda x: x[0]), by insertion
RECURSIVE SortedByIndex(_)
SortedByIndex(rs) ==
    IF rs = <<>> THEN <<>>
    ELSE LET rest == SortedByIndex(Tail(rs))
             before == SelectSeq(rest, LAMBDA r : r.index < Head(rs).index)
             after == SelectSeq(rest, LAMBDA r : r.index >= Head(rs).index)
         IN before \o <<Head(rs)>> \o after

\* the results that are not None, in the order the tasks finished
successful_as_arrived ==
    SelectSeq([k \in 1..Len(arrived) |-> results[arrived[k]]],
              LAMBDA r : r # NoneResult)

\* the results that are not None, sorted by index
successful_results ==
    SortedByIndex(SelectSeq(results, LAMBDA r : r # NoneResult))

\* pool.map has returned: the successes are counted against the total and
\* their files returned
BatchReturn ==
    /\ program = "batch_generate"
    /\ ~batch_run.returned
    /\ Len(arrived) = Len(args_list)
    /\ batch_run' =
           [ returned |-> TRUE,
             files |-> [k \in 1..Len(successful_results) |->
                           successful_results[k].output_file],
             success |-> Len(successful_results),
             total |-> Len(args_list),
             joined |-> FALSE, dry |-> <<>> ]
    /\ UNCHANGED <<args_list, num_workers, next_task, worker, results,
                   arrived, batch_wav, engine_loads, notBatch>>

\* concatenate_podcast segments <the files returned>
ConcatenateReturned ==
    /\ program = "batch_generate"
    /\ batch_run.returned
    /\ ~batch_run.joined
    /\ \E load_fails \in LoadFailures(batch_wav) :
          LET c == LoadSegments(batch_run.files, batch_wav, load_fails,
                       [segments |-> <<>>, missing |-> {}, raised |-> FALSE])
          IN batch_run' = [batch_run EXCEPT
                              !.joined = TRUE,
                              !.dry = IF c.raised THEN <<>> ELSE c.segments]
    /\ UNCHANGED <<args_list, num_workers, next_task, worker, results,
                   arrived, batch_wav, engine_loads, notBatch>>

InitBatch ==
    /\ IdleAlign
    /\ IdleTools
    /\ IdleMerge
    /\ IdleBuild
    /\ program = "batch_generate"
    /\ args_list \in UNION { [1..n -> UnitTexts] : n \in 1..MaxTasks }
    /\ num_workers \in 1..MaxWorkers
    /\ next_task = 1
    /\ worker = [w \in 1..num_workers |-> 0]
    /\ results = [k \in 1..Len(args_list) |-> NoneResult]
    /\ arrived = <<>>
    /\ batch_wav = {}
    /\ batch_run = NotReturned
    /\ engine_loads = 0

NextBatch ==
    \/ \E w \in 1..num_workers : TakeTask(w)
    \/ \E w \in 1..num_workers : GenerateSegment(w)
    \/ BatchReturn
    \/ ConcatenateReturned

SpecBatch == InitBatch /\ [][NextBatch]_vars

\* either program, run on its own
InitPodcast == InitBuild \/ InitBatch
NextPodcast == NextBuild \/ NextBatch
SpecPodcast == InitPodcast /\ [][NextPodcast]_vars

----------------------------------------------------------------------------
(* merge_segments: cli.py                                                  *)

MaxOrdinal == 4
SegmentTexts == { <<"a">>, <<"b", NL>> }
\* the digest in the name of a segment text file somebody put there
SomeKey == <<"d">>

\* the directories merge_segments can be pointed at: at most one file per
\* ordinal 1..MaxOrdinal
SegmentDirs ==
    { { [ordinal |-> i, key |-> SomeKey, content |-> c[i]] : i \in S } :
          c \in [1..MaxOrdinal -> SegmentTexts], S \in SUBSET (1..MaxOrdinal) }

\* full_text of merge_segments: every file stripped and followed by a
\* blank line
RECURSIVE FullText(_)
FullText(files) ==
    IF files = <<>> THEN <<>>
    ELSE Strip(Head(files).content) \o <<NL, NL>> \o FullText(Tail(files))

\* genpod merge: exit 1 without the directory or without a segment file in
\* it, else the sorted files are joined and written
MergeSegments ==
    /\ program = "merge_segments"
    /\ ~merge_out.called
    /\ \E files \in SortedGlob(md_check) :
          merge_out' =
              IF ~segments_dir_exists \/ files = <<>>
              THEN [ called |-> TRUE, exited |-> TRUE, written |-> FALSE,
                     text |-> <<>> ]
              ELSE [ called |-> TRUE, exited |-> FALSE, written |-> TRUE,
                     text |-> Strip(FullText(files)) ]
    /\ UNCHANGED <<alignVars, mergeVars, program, buildVars, batchVars,
                   segments_dir_exists, clean_in, cleaned, requests, keys,
                   infer_text, textVars>>

InitMergeSegments ==
    /\ IdleAlign
    /\ IdleMerge
    /\ IdleBatch
    /\ program = "merge_segments"
    /\ script = <<>>
    /\ seed = 0
    /\ md_build = {}
    /\ wav = {}
    /\ run = NoRun
    /\ builds = 0
    /\ edits = 0
    /\ segments_dir_exists \in BOOLEAN
    /\ md_check \in IF segments_dir_exists THEN SegmentDirs ELSE { {} }
    /\ merge_out = NoMerge
    /\ IdleClean
    /\ IdleHash
    /\ infer_text = <<>>
    /\ IdleText

NextMergeSegments == MergeSegments

SpecMergeSegments == InitMergeSegments /\ [][NextMergeSegments]_vars

----------------------------------------------------------------------------
(* clean_text and number_to_chinese: text_processor.py                     *)
(*                                                                         *)
(* Characters besides the ones above: "ascii." and "ascii," are the ASCII  *)
(* full stop and comma, "V" is the fullwidth digit five U+FF15 (a decimal  *)
(* digit for \d and float(), not a key of num_map), "zh0" .. "zh9" are the *)
(* numerals U+96F6 .. U+4E5D, "zh10", "zh100", "zh1000", "zh10000" the     *)
(* units U+5341, U+767E, U+5343, U+4E07 and "zh." the decimal word U+70B9. *)

AsciiPeriod == "ascii."
AsciiComma == "ascii,"
FullwidthFive == "V"
ZhDigits == <<"zh0", "zh1", "zh2", "zh3", "zh4", "zh5", "zh6", "zh7", "zh8",
              "zh9">>
Shi == "zh10"
Bai == "zh100"
Qian == "zh1000"
Wan == "zh10000"
Dian == "zh."
\* the character class of the units in the first pattern
UnitChars == {Wan, Qian, Bai, Shi}

AsciiDigits == { Digits[k] : k \in 1..10 }
\* \d of a str pattern: every Unicode decimal digit
IsDigit(c) == c \in AsciiDigits \cup {FullwidthFive}
DigitValue(c) ==
    IF c = FullwidthFive THEN 5 ELSE (CHOOSE k \in 0..9 : Digits[k + 1] = c)

\* num_map.get(d, d)
num_map(d) == IF d \in AsciiDigits THEN ZhDigits[DigitValue(d) + 1] ELSE d
MapDigits(ds) == [k \in 1..Len(ds) |-> num_map(ds[k])]

\* int(float(n)) of a match of \d+\.?\d*: the value of the digits before
\* the point (exact below 2^53)
RECURSIVE IntOf(_)
IntOf(n) ==
    LET whole == Head(Split(n, AsciiPeriod))
    IN  IF whole = <<>> THEN 0
        ELSE 10 * IntOf(SubSeq(whole, 1, Len(whole) - 1))
                 + DigitValue(whole[Len(whole)])

RECURSIVE ConvertInt(_)
\* convert_number from n_int on
ConvertInt(n_int) ==
    LET n_str == Str(n_int)
    IN  IF 1000 <= n_int /\ n_int < 10000 /\ Len(n_str) = 4
        THEN MapDigits(n_str)
        ELSE IF n_int < 10000
        THEN IF n_int = 0 THEN <<ZhDigits[1]>>
             ELSE IF n_int < 10 THEN <<num_map(Str(n_int)[1])>>
             ELSE IF n_int < 20
             THEN IF n_int = 10 THEN <<Shi>>
                  ELSE <<Shi, num_map(Str(n_int % 10)[1])>>
             ELSE IF n_int < 100
             THEN <<num_map(Str(n_int \div 10)[1]), Shi>>
                      \o (IF n_int % 10 > 0
                          THEN <<num_map(Str(n_int % 10)[1])>> ELSE <<>>)
             ELSE IF n_int < 1000
             THEN <<num_map(Str(n_int \div 100)[1]), Bai>>
                      \o (IF n_int % 100 > 0
                          THEN IF n_int % 100 < 10
                               THEN <<ZhDigits[1],
                                      num_map(Str(n_int % 100)[1])>>
                               ELSE ConvertInt(n_int % 100)
                          ELSE <<>>)
             ELSE <<num_map(Str(n_int \div 1000)[1]), Qian>>
                      \o (IF n_int % 1000 > 0
                          THEN IF n_int % 1000 < 100
                               THEN <<ZhDigits[1]>>
                                        \o ConvertInt(n_int % 1000)
                               ELSE ConvertInt(n_int % 1000)
                          ELSE <<>>)
        ELSE MapDigits(n_str)

\* the digits before the point, without their leading zeros
RECURSIVE Significant(_)
Significant(whole) ==
    IF whole # <<>> /\ DigitValue(whole[1]) = 0
    THEN Significant(Tail(whole)) ELSE whole

\* a is not below b digit by digit, for digit sequences of one length
RECURSIVE NotBelow(_, _)
NotBelow(a, b) ==
    IF a = <<>> \/ b = <<>> THEN TRUE
    ELSE IF DigitValue(a[1]) # DigitValue(b[1])
    THEN DigitValue(a[1]) > DigitValue(b[1])
    ELSE NotBelow(Tail(a), Tail(b))

\* float(n) is inf from 2^1024 - 2^970 on, a number of FloatMaxDigits
\* digits that begins with FloatMaxLead, and int(inf) raises OverflowError
FloatMaxDigits == 309
FloatMaxLead == <<"1", "7", "9", "7", "6", "9", "3", "1", "3", "4", "8",
                  "6", "2", "3", "1", "5", "8", "0">>
Overflows(n) ==
    LET sig == Significant(Head(Split(n, AsciiPeriod)))
    IN  \/ Len(sig) > FloatMaxDigits
        \/ /\ Len(sig) = FloatMaxDigits
           /\ NotBelow(SubSeq(sig, 1, Len(FloatMaxLead)), FloatMaxLead)

\* what a call that raised OverflowError leaves instead of a string
OverflowError == <<"OverflowError">>

\* s + t when neither raised
Cat(s, t) ==
    IF s = OverflowError \/ t = OverflowError THEN OverflowError ELSE s \o t

convert_number(n) ==
    IF Overflows(n) THEN OverflowError ELSE ConvertInt(IntOf(n))

\* replace_number on a match of \d+\.?\d*
replace_number(num_str) ==
    IF \E k \in 1..Len(num_str) : num_str[k] = AsciiPeriod
    THEN LET parts == Split(num_str, AsciiPeriod)
         IN  Cat(convert_number(parts[1]), <<Dian>> \o MapDigits(parts[2]))
    ELSE convert_number(num_str)

\* the length of the longest run of digits of s from position p on
DigitsFrom(s, p) ==
    LET stops == {k \in p..(Len(s) + 1) : k = Len(s) + 1 \/ ~IsDigit(s[k])}
    IN  MinOf(stops) - p

\* the length of the match of \d+\.?\d* at position p of s, 0 without one
NumberAt(s, p) ==
    LET a == DigitsFrom(s, p)
    IN  IF a = 0 THEN 0
        ELSE IF p + a <= Len(s) /\ s[p + a] = AsciiPeriod
        THEN a + 1 + DigitsFrom(s, p + a + 1)
        ELSE a

\* the length of group 1 of the match of (\d+\.?\d*)([units]) at position
\* p of s, 0 without one: the unit has to follow the digits, or the digits,
\* the point and the digits after it
UnitNumberAt(s, p) ==
    LET a == DigitsFrom(s, p)
        full == NumberAt(s, p)
    IN  IF a = 0 THEN 0
        ELSE IF p + a <= Len(s) /\ s[p + a] \in UnitChars THEN a
        ELSE IF full > a /\ p + full <= Len(s) /\ s[p + full] \in UnitChars
        THEN full
        ELSE 0

\* re.sub of the first pattern with replace_with_unit, from position p on;
\* a scan that fails at the first digit of a run of digits fails at each
\* digit of the run, which is copied whole
RECURSIVE SubWithUnit(_, _)
SubWithUnit(s, p) ==
    IF p > Len(s) THEN <<>>
    ELSE LET g == UnitNumberAt(s, p)
         IN  IF g > 0
             THEN Cat(convert_number(SubSeq(s, p, p + g - 1)),
                      Cat(<<s[p + g]>>, SubWithUnit(s, p + g + 1)))
             ELSE LET a == DigitsFrom(s, p)
                      n == IF a = 0 THEN 1 ELSE a
                  IN  Cat(SubSeq(s, p, p + n - 1), SubWithUnit(s, p + n))

\* re.sub of the second pattern with replace_number, from position p on
RECURSIVE SubNumber(_, _)
SubNumber(s, p) ==
    IF p > Len(s) THEN <<>>
    ELSE LET g == NumberAt(s, p)
         IN  IF g > 0
             THEN Cat(replace_number(SubSeq(s, p, p + g - 1)),
                      SubNumber(s, p + g))
             ELSE Cat(<<s[p]>>, SubNumber(s, p + 1))

number_to_chinese(num_str) ==
    LET with_units == SubWithUnit(num_str, 1)
    IN  IF with_units = OverflowError THEN OverflowError
        ELSE SubNumber(with_units, 1)

\* s.replace(c, d) for one-character c
Replace(s, c, d) == [k \in 1..Len(s) |-> IF s[k] = c THEN d ELSE s[k]]
\* s.replace(' ', '')
WithoutSpaces(s) == SelectSeq(s, LAMBDA c : c # " ")

clean_text(text) ==
    LET converted == number_to_chinese(text)
        stops == Replace(Replace(converted, Comma, FullStop),
                         AsciiComma, FullStop)
        sentences == StrippedNonEmpty(Split(stops, FullStop))
        cleaned_sentences ==
            [k \in 1..Len(sentences) |-> WithoutSpaces(sentences[k])]
        kept == SelectSeq(cleaned_sentences, LAMBDA x : x # <<>>)
    IN  IF converted = OverflowError THEN OverflowError
        ELSE Join([k \in 1..Len(kept) |-> kept[k] \o <<FullStop>>], <<NL>>)

MaxCleanLen == 3
CleanChars == { "1", "0", AsciiPeriod, FullwidthFive, Wan, AsciiComma,
                FullStop, " ", NL, "a" }
\* a literal of one digit more than a float holds
LongLiteral == Rep("1", FloatMaxDigits + 1)
CleanInputs ==
    UNION { [1..n -> CleanChars] : n \in 0..MaxCleanLen } \cup {LongLiteral}

\* clean_text is called on the text, and then on what it returned, unless
\* the first call raised
CleanText ==
    /\ program = "clean_text"
    /\ Len(cleaned) < 2
    /\ IF cleaned = <<>> THEN TRUE ELSE cleaned[Len(cleaned)] # OverflowError
    /\ cleaned' = Append(cleaned,
                         clean_text(IF cleaned = <<>> THEN clean_in
                                    ELSE cleaned[Len(cleaned)]))
    /\ UNCHANGED <<alignVars, mergeVars, program, buildVars, batchVars,
                   segments_dir_exists, merge_out, clean_in, requests, keys,
                   infer_text, textVars>>

InitClean ==
    /\ IdleAlign
    /\ IdleMerge
    /\ IdleBuild
    /\ IdleBatch
    /\ IdleMergeSegments
    /\ IdleHash
    /\ infer_text = <<>>
    /\ IdleText
    /\ program = "clean_text"
    /\ clean_in \in CleanInputs
    /\ cleaned = <<>>

NextClean == CleanText

SpecClean == InitClean /\ [][NextClean]_vars

----------------------------------------------------------------------------
(* compute_hash: cli.py                                                    *)

MaxKeyTextLen == 2
KeyTexts == UNION { [1..n -> {"a", "1"}] : n \in 0..MaxKeyTextLen }
KeySeeds == { 1, 11, DefaultSeed }
Requests == [ text : KeyTexts, seed : KeySeeds ]

\* compute_hash is called for each of the two requests
ComputeHash ==
    /\ program = "compute_hash"
    /\ keys = <<>>
    /\ keys' = [k \in 1..Len(requests) |->
                    compute_hash(requests[k].text, requests[k].seed)]
    /\ UNCHANGED <<alignVars, mergeVars, program, buildVars, batchVars,
                   segments_dir_exists, merge_out, clean_in, cleaned,
                   requests, infer_text, textVars>>

InitHash ==
    /\ IdleAlign
    /\ IdleMerge
    /\ IdleBuild
    /\ IdleBatch
    /\ IdleMergeSegments
    /\ IdleClean
    /\ infer_text = <<>>
    /\ IdleText
    /\ program = "compute_hash"
    /\ requests \in [1..2 -> Requests]
    /\ keys = <<>>

NextHash == ComputeHash

SpecHash == InitHash /\ [][NextHash]_vars

----------------------------------------------------------------------------
(* generate_audio from the alignment to the waveform inference:            *)
(* generate_podcast.py                                                     *)

BreakSix == <<"[", "b", "r", "e", "a", "k", "_", "6", "]">>

\* the length of the longest run of whitespace of s from position p on
RECURSIVE WsFrom(_, _)
WsFrom(s, p) ==
    IF p <= Len(s) /\ s[p] \in Whitespace THEN 1 + WsFrom(s, p + 1) ELSE 0

\* the length of the match of \[\s*uv_break\s*\] (IGNORECASE) at position p
\* of s, 0 without one
UvBreakAt(s, p) ==
    IF s[p] # "[" THEN 0
    ELSE LET q == p + 1 + WsFrom(s, p + 1)
             name == SubSeq(UvBreak, 2, Len(UvBreak) - 1)
             r == q + Len(name) + WsFrom(s, q + Len(name))
         IN  IF /\ q + Len(name) - 1 <= Len(s)
                /\ Lower(SubSeq(s, q, q + Len(name) - 1)) = name
                /\ r <= Len(s)
                /\ s[r] = "]"
             THEN r - p + 1
             ELSE 0

\* re.sub of that pattern with '[break_6]', from position p on
RECURSIVE SubUvBreak(_, _)
SubUvBreak(s, p) ==
    IF p > Len(s) THEN <<>>
    ELSE LET g == UvBreakAt(s, p)
         IN  IF g > 0 THEN BreakSix \o SubUvBreak(s, p + g)
             ELSE <<s[p]>> \o SubUvBreak(s, p + 1)

\* the length of the match of \[.*?\] at position p of s, 0 without one:
\* from a '[' to the first ']' after it, no line break between them
TagAt(s, p) ==
    IF s[p] # "[" THEN 0
    ELSE LET tag_end == Find(s, "]", p - 1)
         IN  IF tag_end = -1 THEN 0
             ELSE IF \E k \in (p + 1)..tag_end : s[k] = NL THEN 0
             ELSE tag_end + 2 - p

\* tag_safety_filter: a tag outside the whitelist becomes the empty string
tag_safety_filter(tag) == IF IsWhitelisted(tag) THEN tag ELSE <<>>

\* re.sub(r'\[.*?\]', tag_safety_filter, s), from position p on
RECURSIVE SubSafety(_, _)
SubSafety(s, p) ==
    IF p > Len(s) THEN <<>>
    ELSE LET g == TagAt(s, p)
         IN  IF g > 0
             THEN tag_safety_filter(SubSeq(s, p, p + g - 1))
                      \o SubSafety(s, p + g)
             ELSE <<s[p]>> \o SubSafety(s, p + 1)

\* re.sub(r'\s+', ' ', s), from position p on
RECURSIVE CollapseWs(_, _)
CollapseWs(s, p) ==
    IF p > Len(s) THEN <<>>
    ELSE LET g == WsFrom(s, p)
         IN  IF g > 0 THEN <<" ">> \o CollapseWs(s, p + g)
             ELSE <<s[p]>> \o CollapseWs(s, p + 1)

\* final_text of generate_audio, computed from aligned_text
final_text(aligned_text) ==
    Strip(CollapseWs(SubSafety(SubUvBreak(aligned_text, 1), 1), 1))

MaxSynthNorm == 2
MaxSynthRef == 3
\* what the normalizer and the refinement can return is not decided by
\* GenPod: any text of these pieces
SynthNormPieces == { <<"a">>, <<"b">>, SpeakerTag, UvBreak }
SynthRefPieces ==
    { <<"a">>, <<"b">>, <<"[">>, LaughTag, LaughTagUpper, SpeakerTag }

\* stage 4 of generate_audio: the aligned text is scrubbed and handed to
\* chat.infer
Infer ==
    /\ program = "generate_audio"
    /\ AlignDone
    /\ infer_text = <<>>
    /\ infer_text' = <<final_text(result)>>
    /\ UNCHANGED <<alignVars, mergeVars, program, buildVars, batchVars,
                   segments_dir_exists, merge_out, clean_in, cleaned,
                   requests, keys, textVars>>

InitSynthesis ==
    /\ IdleMerge
    /\ IdleBuild
    /\ IdleBatch
    /\ IdleTools
    /\ program = "generate_audio"
    /\ normalized \in TextsOf(SynthNormPieces, MaxSynthNorm)
    /\ refined \in TextsOf(SynthRefPieces, MaxSynthRef)
    /\ i_norm = 0
    /\ i_ref = 0
    /\ result = <<>>

NextSynthesis ==
    \/ NextAlign
    \/ Infer

SpecSynthesis == InitSynthesis /\ [][NextSynthesis]_vars

----------------------------------------------------------------------------
(* filter_markdown_metadata and split_by_paragraph: text_processor.py      *)
(*                                                                         *)
(* The content is the sequence of its lines, content.split('\n'), and a    *)
(* line is a sequence of the tokens below, a token standing for the        *)
(* characters it names.                                                    *)

HashMark == "#"
Star == "*"
\* '* **': a bullet that opens with bold text
StarBold == "* **"
TitleWords == {"TTS Setting Suggestion", "TTSSettingSuggestion"}
BulletWords == {"Role", "Speed", "Note"}

\* line.strip() == ''
IsBlankLine(line) == Strip(line) = <<>>
\* stripped.startswith('#')
IsHeading(line) == ~IsBlankLine(line) /\ Strip(line)[1] = HashMark
\* 'TTS Setting Suggestion' in stripped or 'TTSSettingSuggestion' in stripped
IsTitle(line) == \E k \in 1..Len(line) : line[k] \in TitleWords
\* stripped.startswith('*')
IsBullet(line) == ~IsBlankLine(line) /\ Strip(line)[1] \in {Star, StarBold}
\* stripped.startswith('* **') and ('Role' in stripped or ...)
IsSettingBullet(line) ==
    /\ ~IsBlankLine(line)
    /\ Strip(line)[1] = StarBold
    /\ \E k \in 1..Len(line) : line[k] \in BulletWords

RECURSIVE FilterFrom(_, _, _)
\* the for loop of filter_markdown_metadata from line i on (1-based), with
\* the flag skip_next: the indices of the lines appended to filtered_lines
FilterFrom(lines, i, skip_next) ==
    IF i > Len(lines) THEN <<>>
    ELSE IF IsHeading(lines[i]) THEN FilterFrom(lines, i + 1, skip_next)
    ELSE IF IsTitle(lines[i]) THEN FilterFrom(lines, i + 1, TRUE)
    ELSE IF IsSettingBullet(lines[i]) THEN FilterFrom(lines, i + 1, skip_next)
    ELSE IF skip_next /\ (IsBlankLine(lines[i]) \/ IsBullet(lines[i]))
    THEN FilterFrom(lines, i + 1, TRUE)
    ELSE <<i>> \o FilterFrom(lines, i + 1, FALSE)

\* filter_markdown_metadata(content): the lines kept, each with its index
\* in content.split('\n')
filter_markdown_metadata(lines) ==
    LET kept == FilterFrom(lines, 1, FALSE)
    IN  [ lines |-> [k \in 1..Len(kept) |-> lines[kept[k]]], from |-> kept ]

\* split_by_paragraph: re.split(r'\n\s*\n+', text.strip()) separates two
\* lines that are not blank exactly when a blank line lies between them
SameParagraph(lines, i, j) == \A m \in i..j : ~IsBlankLine(lines[m])

MaxLines == 4
ContentLines ==
    { <<"p">>, <<"q">>, <<>>, <<" ">>, <<HashMark, "h">>,
      <<"TTS Setting Suggestion">>, <<Star, "b">>, <<StarBold, "Role">> }
RawContents == UNION { [1..n -> ContentLines] : n \in 1..MaxLines }

FilterMarkdownMetadata ==
    /\ program = "filter_markdown_metadata"
    /\ filtered = <<>>
    /\ filtered' = <<filter_markdown_metadata(raw_content)>>
    /\ UNCHANGED <<alignVars, mergeVars, program, buildVars, batchVars,
                   segments_dir_exists, merge_out, clean_in, cleaned,
                   requests, keys, infer_text, raw_content, pron_text,
                   pronunciations, pron_out>>

InitFilter ==
    /\ IdleAlign
    /\ IdleMerge
    /\ IdleBuild
    /\ IdleBatch
    /\ IdleMergeSegments
    /\ IdleClean
    /\ IdleHash
    /\ infer_text = <<>>
    /\ program = "filter_markdown_metadata"
    /\ raw_content \in RawContents
    /\ filtered = <<>>
    /\ pron_text = <<>>
    /\ pronunciations = <<>>
    /\ pron_out = <<>>

NextFilter == FilterMarkdownMetadata

SpecFilter == InitFilter /\ [][NextFilter]_vars

----------------------------------------------------------------------------
(* The pronunciation table: pronunciations.py and generate_podcast.py      *)
(*                                                                         *)
(* A table is the sequence of the items of the dict, in the order of       *)
(* dict.items(): pairs of a word and its replacement.                      *)

DEFAULT_PRONUNCIATIONS ==
    << << <<"A", "I">>,
          <<"A", " ", "I">> >>,
       << <<"O", "p", "e", "n", "A", "I">>,
          <<"O", "p", "e", "n", " ", "A", " ", "I">> >>,
       << <<"S", "G", "L", "a", "n", "g">>,
          <<"S", " ", "G", " ", "L", "a", "n", "g">> >>,
       << <<"L", "L", "M">>,
          <<"L", " ", "L", " ", "M">> >>,
       << <<"A", "p", "p">>,
          <<"A", " ", "P", " ", "P">> >>,
       << <<"C", "o", "T">>,
          <<"C", " ", "o", " ", "T">> >>,
       << <<"D", "e", "e", "p", "S", "e", "e", "k">>,
          <<"D", "e", "e", "p", " ", "S", "e", "e", "k">> >>,
       << <<"D", "o", "c", "k", "e", "r">>,
          <<"D", "o", "c", "k", "e", "r">> >>,
       << <<"G", "e", "m", "i", "n", "i">>,
          <<"G", "e", "m", "i", "n", "i">> >>,
       << <<"G", "e", "m", "m", "a">>,
          <<"G", "e", "m", "m", "a">> >>,
       << <<"O", "l", "l", "a", "m", "a">>,
          <<"O", "l", "l", "a", "m", "a">> >>,
       << <<"S", "A", "E">>,
          <<"S", " ", "A", " ", "E">> >>,
       << <<"V", "e", "o">>,
          <<"V", "e", "o">> >>,
       << <<"W", "i", "z">>,
          <<"W", "i", "z">> >> >>

\* s.replace(w, r) from position p on (1-based), w not empty: the
\* occurrences of w are taken from left to right and do not overlap
RECURSIVE ReplaceFrom(_, _, _, _)
ReplaceFrom(s, w, r, p) ==
    IF p > Len(s) THEN <<>>
    ELSE IF p + Len(w) - 1 <= Len(s) /\ SubSeq(s, p, p + Len(w) - 1) = w
    THEN r \o ReplaceFrom(s, w, r, p + Len(w))
    ELSE <<s[p]>> \o ReplaceFrom(s, w, r, p + 1)

RECURSIVE ApplyFrom(_, _, _)
\* the for loop of apply_pronunciations from item k on
ApplyFrom(text, dictionary, k) ==
    IF k > Len(dictionary) THEN text
    ELSE ApplyFrom(ReplaceFrom(text, dictionary[k][1], dictionary[k][2], 1),
                   dictionary, k + 1)

apply_pronunciations(text, dictionary) ==
    IF dictionary = <<>> THEN text ELSE ApplyFrom(text, dictionary, 1)

RECURSIVE Update(_, _)
\* d.update(other): the value of a key that d has is replaced where it
\* stands, a new key goes to the end
Update(dict, other) ==
    IF other = <<>> THEN dict
    ELSE LET item == Head(other)
             at == {k \in 1..Len(dict) : dict[k][1] = item[1]}
         IN  Update(IF at = {} THEN Append(dict, item)
                    ELSE [k \in 1..Len(dict) |->
                             IF k \in at THEN item ELSE dict[k]],
                    Tail(other))

\* lines 148-150 of generate_audio
combined_pronunciations(user) == Update(DEFAULT_PRONUNCIATIONS, user)

MaxPronPieces == 2
MaxUserEntries == 2
PronPieces ==
    { DEFAULT_PRONUNCIATIONS[2][1], DEFAULT_PRONUNCIATIONS[1][1],
      <<"a">>, <<"b">>, <<" ">> }
UserEntries ==
    { << DEFAULT_PRONUNCIATIONS[1][1], <<"a", "i">> >>,
      << <<"a">>, <<"b">> >>, << <<"b">>, <<"a">> >> }
\* the tables of a configuration: no word twice
UserTables ==
    { t \in UNION { [1..n -> UserEntries] : n \in 0..MaxUserEntries } :
        \A i, j \in 1..Len(t) : i # j => t[i][1] # t[j][1] }

\* lines 145-157 of generate_audio, for a text that is not blank
ApplyPronunciations ==
    /\ program = "apply_pronunciations"
    /\ pron_out = <<>>
    /\ pron_out' = <<apply_pronunciations(pron_text,
                         combined_pronunciations(pronunciations))>>
    /\ UNCHANGED <<alignVars, mergeVars, program, buildVars, batchVars,
                   segments_dir_exists, merge_out, clean_in, cleaned,
                   requests, keys, infer_text, raw_content, filtered,
                   pron_text, pronunciations>>

InitPronounce ==
    /\ IdleAlign
    /\ IdleMerge
    /\ IdleBuild
    /\ IdleBatch
    /\ IdleMergeSegments
    /\ IdleClean
    /\ IdleHash
    /\ infer_text = <<>>
    /\ raw_content = <<>>
    /\ filtered = <<>>
    /\ program = "apply_pronunciations"
    /\ pron_text \in { t \in TextsOf(PronPieces, MaxPronPieces) :
                          Strip(t) # <<>> }
    /\ pronunciations \in UserTables
    /\ pron_out = <<>>

NextPronounce == ApplyPronunciations

SpecPronounce == InitPronounce /\ [][NextPronounce]_vars

----------------------------------------------------------------------------
(* Properties of align_text.                                               *)

\* every '[' of s is closed by a later ']'
NoUnclosedBracket(s) ==
    \A k \in 1..Len(s) : s[k] = "[" => \E j \in (k + 1)..Len(s) : s[j] = "]"

\* C1 as stated: for every pair (normalized, refined), deleting the bracket
\* tokens of align_text's output gives normalized with its bracket tokens
\* deleted.
C1_ContentPreserved ==
    AlignDone => StripTags(result) = StripTags(normalized)

\* C1 amended: the same, for every normalized text in which every '[' is
\* closed by a later ']' (and every refined text).
C1_ContentPreservedClosed ==
    (AlignDone /\ NoUnclosedBracket(normalized))
        => StripTags(result) = StripTags(normalized)

\* an alignment that finished on a well-bracketed normalized text of two or
\* more content characters, with a tag injected from refined and a refined
\* character that normalized does not have
C1_Witness ==
    /\ AlignDone
    /\ NoUnclosedBracket(normalized)
    /\ Len(StripTags(normalized)) >= 2
    /\ Len(result) > Len(normalized)
    /\ \E k \in 1..Len(refined) : refined[k] = "c"

----------------------------------------------------------------------------
(* Properties of merge_paragraphs.                                         *)

\* the text without its white space
RemoveWs(s) == SelectSeq(s, LAMBDA c : c \notin Whitespace)

MergeReturned == returned /\ min_chars <= max_chars

\* C2: for every paragraph list and min_chars <= max_chars, the returned
\* units concatenated in order are, white space aside, the input paragraphs
\* concatenated in order: nothing dropped, duplicated, added or reordered.
C2_TextKept ==
    MergeReturned =>
        RemoveWs(Concat(final_merged)) = RemoveWs(Concat(paragraphs))

\* C3: for every paragraph list and min_chars <= max_chars, every returned
\* unit is at most max_chars long.
C3_UnitsWithinMax ==
    MergeReturned =>
        \A k \in 1..Len(final_merged) : Len(final_merged[k]) <= max_chars

\* a call that returned after splitting a paragraph longer than max_chars
\* and after the final check cut a unit that joining or the backward merge
\* had made longer than max_chars
C3_Witness ==
    /\ MergeReturned
    /\ \E k \in 1..Len(paragraphs) : Len(paragraphs[k]) > max_chars
    /\ \E k \in 1..Len(merged) : Len(merged[k]) > max_chars
    /\ Len(final_merged) >= 2

\* C4: for min_chars <= max_chars, no returned unit but the last is shorter
\* than min_chars, and the last is shorter only if joining it to the unit
\* before it would exceed max_chars.
C4_UnitsAtLeastMin ==
    MergeReturned =>
        LET n == Len(final_merged)
        IN  /\ \A k \in 1..(n - 1) : Len(final_merged[k]) >= min_chars
            /\ (n >= 2 /\ Len(final_merged[n]) < min_chars) =>
                   Len(final_merged[n - 1]) + Len(final_merged[n]) > max_chars

\* the audio file of unit i of a run
UnitWav(r, i) ==
    IF r.mode = "segment_file" THEN HashWav(compute_hash(r.units[i], r.seed))
    ELSE OrdinalWav(i)

\* C5. After a build of the script without the force flag that ran to its
\* end, the audio file of every ordinal was synthesized from the text and
\* with the seed that the build used for that ordinal.
C5_AudioFromCurrentText ==
    (run.mode = "script" /\ ~run.force /\ run.outcome = "complete") =>
        \A i \in 1..run.total :
            Exists(wav, OrdinalWav(i)) =>
                /\ FileAt(wav, OrdinalWav(i)).text = run.units[i]
                /\ FileAt(wav, OrdinalWav(i)).seed = run.seed

\* C6. In every run of build_podcast, generate_audio was invoked for a unit
\* exactly if the force flag was set or the unit's audio file did not exist,
\* and a run with the force flag invoked it for every unit.
C6_GeneratedIffForcedOrMissing ==
    run.outcome # "none" =>
        /\ \A i \in 1..Len(run.units) :
               (i \in run.generated) <=> (run.force \/ i \notin run.existed)
        /\ run.force => run.generated = 1..run.total

\* C7. A run of build_podcast in which generate_audio raised for a unit
\* still reached every unit and ended as a complete build.
C7_FailureContained ==
    run.raised # 0 =>
        /\ Len(run.units) = run.total
        /\ run.outcome = "complete"

\* the units a run printed a message about: the one generate_audio raised
\* for, those skipped for an empty text, those whose file was missing when
\* the segments were loaded
Mentioned(r) ==
    { i \in 1..Len(r.units) :
        \/ i = r.raised
        \/ i \in r.generated /\ r.units[i] = Empty
        \/ UnitWav(r, i) \in r.missing }

Listed(r, i) ==
    /\ i <= Len(r.units)
    /\ \E k \in 1..Len(r.segment_files) : r.segment_files[k] = UnitWav(r, i)

\* C8. When a run of build_podcast has ended, a unit without an audio file
\* is not in the list collected for concatenation and the run has printed a
\* message about it.
C8_NoSilentLoss ==
    run.outcome # "none" =>
        \A i \in 1..run.total :
            (i > Len(run.units) \/ ~Exists(wav, UnitWav(run, i))) =>
                /\ ~Listed(run, i)
                /\ i \in Mentioned(run)

\* the ordinal an audio file is named by
OrdinalOf(name) == CHOOSE i \in 0..9 : OrdinalWav(i) = name

StrictlyIncreasing(s) ==
    \A k \in 1..(Len(s) - 1) : s[k] < s[k + 1]

\* C9. The audio files a build collects, and the audio joined from them,
\* are in strictly increasing order of ordinal: in build_podcast from the
\* script or from a segment directory, and in batch_generate whatever the
\* order the tasks finished in.
C9_JoinedInOrdinalOrder ==
    /\ run.mode \in {"script", "segments_dir"} =>
           /\ StrictlyIncreasing([k \in 1..Len(run.segment_files) |->
                                     OrdinalOf(run.segment_files[k])])
           /\ StrictlyIncreasing([k \in 1..Len(run.dry) |->
                                     OrdinalOf(run.dry[k].name)])
    /\ batch_run.returned =>
           /\ StrictlyIncreasing([k \in 1..Len(batch_run.files) |->
                                     OrdinalOf(batch_run.files[k])])
           /\ StrictlyIncreasing([k \in 1..Len(batch_run.dry) |->
                                     OrdinalOf(batch_run.dry[k].name)])

\* two tasks finished against the order of their ordinals, both with
\* success, and their audio has been joined
C9_Witness ==
    /\ batch_run.joined
    /\ Len(batch_run.dry) >= 2
    /\ \E k \in 1..(Len(arrived) - 1) :
           /\ arrived[k] > arrived[k + 1]
           /\ results[arrived[k]] # NoneResult
           /\ results[arrived[k + 1]] # NoneResult

\* C10. No audio file of the segments directory is a partially written
\* artifact.
C10_NoPartialArtifact ==
    \A f \in wav : f.whole


\* the ordinals of the segment text files leave no gap
Contiguous(md) ==
    LET ords == { f.ordinal : f \in md }
    IN \A i \in MinOf(ords)..MaxOf(ords) : i \in ords

\* C11: merge_segments on a directory with segment files writes the merged
\* script only when the ordinals of the files are contiguous: with a gap it
\* exits with status 1 and writes nothing, without one it does not exit and
\* the output holds every segment's content in ascending ordinal order.
C11_MergeOnlyContiguous ==
    (merge_out.called /\ segments_dir_exists /\ md_check # {}) =>
        /\ merge_out.exited <=> ~Contiguous(md_check)
        /\ merge_out.written <=> Contiguous(md_check)
        /\ Contiguous(md_check) =>
               \E files \in SortedGlob(md_check) :
                   merge_out.text = Strip(FullText(files))


\* C12: clean_text is idempotent: cleaning the output of clean_text again
\* returns it unchanged, for every input.
C12_CleanIdempotent ==
    Len(cleaned) = 2 => cleaned[2] = cleaned[1]


\* C13: compute_hash identifies a synthesis request: equal (text, seed)
\* pairs get the same key, and pairs that differ in text or in seed are
\* digested from different strings.
C13_KeyIdentifiesRequest ==
    keys # <<>> => (keys[1] = keys[2] <=> requests[1] = requests[2])


\* the bracket tokens of s, in order: every '[' with a ']' after it opens a
\* token that ends at the first such ']'
RECURSIVE TagsOf(_)
TagsOf(s) ==
    IF s = <<>> THEN <<>>
    ELSE IF Head(s) = "[" /\ Find(s, "]", 0) # -1
         THEN <<Slice(s, 0, Find(s, "]", 0) + 1)>>
                  \o TagsOf(Slice(s, Find(s, "]", 0) + 1, Len(s)))
         ELSE TagsOf(Tail(s))

\* a is b with some elements left out
RECURSIVE IsSubsequence(_, _)
IsSubsequence(a, b) ==
    IF a = <<>> THEN TRUE
    ELSE IF b = <<>> THEN FALSE
    ELSE IF Head(a) = Head(b) THEN IsSubsequence(Tail(a), Tail(b))
    ELSE IsSubsequence(a, Tail(b))

\* C14: every bracket tag of the normalized text is in the text handed to
\* the waveform inference, verbatim and in order, whatever refined holds.
C14_NormTagsReachInference ==
    infer_text # <<>> =>
        IsSubsequence(TagsOf(normalized), TagsOf(infer_text[1]))


NoBracket(s) == \A k \in 1..Len(s) : s[k] \notin {"[", "]"}

RECURSIVE AdjacentSame(_)
AdjacentSame(s) ==
    IF s = <<>> THEN FALSE
    ELSE IF Head(s) = "[" /\ Find(s, "]", 0) # -1
         THEN LET tag == Slice(s, 0, Find(s, "]", 0) + 1)
                  rest == Slice(s, Len(tag), Len(s))
              IN  StartsWith(rest, tag) \/ AdjacentSame(rest)
         ELSE AdjacentSame(Tail(s))

\* refined is normalized with whitelisted tags inserted and nothing else
\* changed, no two identical tags next to each other
Injected ==
    /\ NoBracket(normalized)
    /\ StripTags(refined) = normalized
    /\ \A k \in 1..Len(TagsOf(refined)) : IsWhitelisted(TagsOf(refined)[k])
    /\ ~AdjacentSame(refined)

\* C16: when refined is normalized with whitelisted tags inserted before
\* the first character, between characters or after the last character,
\* align_text returns refined.
C16_TagsInjectedInPlace ==
    (AlignDone /\ Injected) => result = refined


\* C17: a configuration with min_chars > max_chars is rejected before any
\* packing: merge_paragraphs takes no paragraph and returns no units.
C17_InconsistentBoundsRejected ==
    (paragraphs # <<>> /\ min_chars > max_chars) =>
        /\ para_idx = 0
        /\ merged = <<>>
        /\ current_segment = <<>>
        /\ ~returned


\* C18: in every full build of the script, the text used for ordinal i (for
\* its hash and its synthesis) is the content of the segment text file of
\* ordinal i as the author left it, and after a build that ran to its end
\* the audio file of ordinal i was synthesized from that content.
C18_EditedTextSupersedes ==
    [][ (builds' = builds + 1 /\ run'.mode = "script") =>
            \A i \in 1..Len(run'.units) :
                \A f \in md_build :
                    f.ordinal = i =>
                        /\ run'.units[i] = f.content
                        /\ (run'.outcome = "complete"
                                /\ Exists(wav', OrdinalWav(i))) =>
                               FileAt(wav', OrdinalWav(i)).text = f.content
      ]_vars


\* C19: after every full build of the script that ran to its end, the
\* directory of segment text files holds exactly one file for every ordinal
\* of the build, and the hash in the name of every file is the hash of the
\* file's content and the seed.
C19_OneKeyedFilePerOrdinal ==
    [][ (builds' = builds + 1 /\ run'.mode = "script"
             /\ run'.outcome = "complete") =>
            /\ \A i \in 1..run'.total :
                   Cardinality({ f \in md_build' : f.ordinal = i }) = 1
            /\ \A f \in md_build' : f.key = compute_hash(f.content, seed)
      ]_vars


\* C20: in a batch build the synthesis engine is loaded at most once per
\* worker of the pool, however many units are synthesized.
C20_EngineLoadedOncePerWorker ==
    program = "batch_generate" => engine_loads <= num_workers


\* the lists of units that packing ps can give when nothing is split: ps
\* cut into runs of consecutive paragraphs, every run joined with sep
RECURSIVE Groupings(_, _)
Groupings(ps, sep) ==
    IF ps = <<>> THEN { <<>> }
    ELSE UNION { { <<Join(SubSeq(ps, 1, k), sep)>> \o rest :
                     rest \in Groupings(SubSeq(ps, k + 1, Len(ps)), sep) } :
                 k \in 1..Len(ps) }

RECURSIVE SumLen(_)
SumLen(ps) == IF ps = <<>> THEN 0 ELSE Len(Head(ps)) + SumLen(Tail(ps))

BlankLine == <<NL, NL>>

\* no paragraph is longer than max_chars, and every run of paragraphs whose
\* lengths sum to at most max_chars still fits when joined by blank lines
AllFit ==
    /\ \A k \in 1..Len(paragraphs) : Len(paragraphs[k]) <= max_chars
    /\ \A i \in 1..Len(paragraphs) : \A j \in i..Len(paragraphs) :
           SumLen(SubSeq(paragraphs, i, j)) <= max_chars =>
               Len(Join(SubSeq(paragraphs, i, j), BlankLine)) <= max_chars

C22_NoAsciiDigitLeft ==
    \A k \in 1..Len(cleaned) :
        /\ cleaned[k] # OverflowError
        /\ \A j \in 1..Len(cleaned[k]) : cleaned[k][j] \notin AsciiDigits

\* C23: a paragraph is appended to the buffer whenever buffer, line break
\* and paragraph together do not exceed max_chars, and a step of the scan
\* flushes the buffer only when the paragraph that follows would not fit
\* with it or no paragraph follows.
C23_FlushedOnlyWhenFull ==
    [][ InLoop =>
          /\ (current_segment # <<>>
                 /\ Len(Join(Append(current_segment, para), <<NL>>))
                        <= max_chars)
                => \/ current_segment' = Append(current_segment, para)
                   \/ current_segment' = <<>> /\ merged' # merged
          /\ (para_length <= max_chars /\ merged' # merged
                 /\ current_segment' = <<>> /\ para_idx' < Len(paragraphs))
                => Len(Join(Append(current_segment, para), <<NL>>)) + 1
                       + Len(paragraphs[para_idx' + 1]) > max_chars ]_vars

\* C24: when a paragraph alone exceeds max_chars, its slices except the
\* last are appended to the completed units and its last slice becomes the
\* new buffer, to which the following paragraphs can be appended.
C24_LastSliceSeedsBuffer ==
    [][ (InLoop /\ para_length > max_chars) =>
          LET slices == split_long_text(para, max_chars, 0)
              n == Len(slices)
          IN  n > 0 =>
                /\ current_segment' = <<slices[n]>>
                /\ Len(merged') >= n - 1
                /\ SubSeq(merged', Len(merged') - n + 2, Len(merged'))
                       = SubSeq(slices, 1, n - 1) ]_vars

\* the cut point of the claim: just after the rightmost full stop found
\* between half the limit and the limit, else just after the rightmost
\* comma found there, else the limit
HalfLimitCut(line, limit) ==
    LET InRange(i) == 2 * i >= limit /\ i < limit /\ i < Len(line)
        stops == {i \in 0..limit : InRange(i) /\ line[i + 1] = FullStop}
        commas == {i \in 0..limit : InRange(i) /\ line[i + 1] = Comma}
    IN  IF stops # {} THEN MaxOf(stops) + 1
        ELSE IF commas # {} THEN MaxOf(commas) + 1
        ELSE limit

\* C25: when the first line of a paragraph is longer than the limit, the
\* first slice of the paragraph is the line up to a cut point at or before
\* the limit: just after the rightmost sentence-ending punctuation between
\* half the limit and the limit, else just after the rightmost comma in
\* that range, else exactly at the limit.
C25_CutAfterPunctuationFromHalf ==
    [][ (InLoop /\ para_length > max_chars /\ current_segment = <<>>) =>
          LET lines == LinesOf(para)
              first_part ==
                  Strip(Slice(lines[1], 0, HalfLimitCut(lines[1], max_chars)))
          IN  (lines # <<>> /\ Len(lines[1]) > max_chars
                 /\ first_part # <<>>)
                => /\ Len(merged') > Len(merged)
                   /\ merged'[Len(merged) + 1] = first_part ]_vars

\* C26: every line of what clean_text returns is a non-empty sentence that
\* ends in a full stop and holds no comma and no whitespace, so the only
\* whitespace of the output is the one newline between two sentences.
C26_OneSentencePerLine ==
    \A k \in 1..Len(cleaned) :
        (cleaned[k] # OverflowError /\ cleaned[k] # <<>>) =>
            LET lines == Split(cleaned[k], NL)
            IN  \A n \in 1..Len(lines) :
                    /\ lines[n] # <<>>
                    /\ lines[n][Len(lines[n])] = FullStop
                    /\ \A j \in 1..Len(lines[n]) :
                           lines[n][j] \notin {Comma, AsciiComma} \cup Whitespace

RECURSIVE OnlyMetadataRemoved(_, _, _)
\* the indices kept by the filter of the claim, from line i on: a heading
\* is removed; a title line is removed and opens the suggestion block; in
\* the block a blank line or a bullet is removed, and the first other line
\* is kept and closes the block; every other line is kept
OnlyMetadataRemoved(lines, i, in_block) ==
    IF i > Len(lines) THEN <<>>
    ELSE IF IsHeading(lines[i])
    THEN OnlyMetadataRemoved(lines, i + 1, in_block)
    ELSE IF IsTitle(lines[i]) THEN OnlyMetadataRemoved(lines, i + 1, TRUE)
    ELSE IF in_block /\ (IsBlankLine(lines[i]) \/ IsBullet(lines[i]))
    THEN OnlyMetadataRemoved(lines, i + 1, TRUE)
    ELSE <<i>> \o OnlyMetadataRemoved(lines, i + 1, FALSE)

\* C27: filter_markdown_metadata removes the heading lines and the lines of
\* the suggestion block and no other line, keeps the other lines unchanged
\* and in order, and two kept lines that a blank line separates in the
\* content are still separated by a blank line in what it returns.
C27_OnlyMetadataRemoved ==
    filtered # <<>> =>
        LET out == filtered[1]
        IN  /\ out.from = OnlyMetadataRemoved(raw_content, 1, FALSE)
            /\ \A k \in 1..Len(out.lines) :
                   out.lines[k] = raw_content[out.from[k]]
            /\ \A a, b \in 1..Len(out.lines) :
                   (a < b /\ ~IsBlankLine(out.lines[a])
                      /\ ~IsBlankLine(out.lines[b])
                      /\ ~SameParagraph(raw_content, out.from[a], out.from[b]))
                     => ~SameParagraph(out.lines, a, b)

\* C28: when the text given to clean_text is a numeric literal d followed
\* by a magnitude suffix, number_to_chinese renders it as it renders d
\* alone, followed by the suffix.
C28_SuffixKeepsLiteral ==
    (cleaned # <<>> /\ Len(clean_in) >= 2) =>
        LET d == SubSeq(clean_in, 1, Len(clean_in) - 1)
            suffix == clean_in[Len(clean_in)]
        IN  (suffix \in UnitChars /\ NumberAt(d, 1) = Len(d)
               /\ number_to_chinese(d) # OverflowError)
              => number_to_chinese(clean_in)
                     = number_to_chinese(d) \o <<suffix>>

\* the table with its items i and j exchanged
Exchanged(table, i, j) ==
    [k \in 1..Len(table) |->
        IF k = i THEN table[j] ELSE IF k = j THEN table[i] ELSE table[k]]

\* C29: a text that is a word of the table (the built-in entries, overridden
\* by the user's) comes out as that word's replacement, so that 'OpenAI'
\* becomes 'Open A I' with the built-in table, and the result is the same
\* for every order of the table's entries.
C29_EveryWordReplaced ==
    pron_out # <<>> =>
        LET table == combined_pronunciations(pronunciations)
        IN  /\ \A k \in 1..Len(table) :
                   pron_text = table[k][1] => pron_out[1] = table[k][2]
            /\ \A i, j \in 1..Len(table) :
                   pron_out[1]
                       = apply_pronunciations(pron_text,
                                              Exchanged(table, i, j))

\* s is the beginning of t
IsPrefix(s, t) == Len(s) <= Len(t) /\ SubSeq(t, 1, Len(s)) = s

\* C30: align_text is one forward pass that terminates: in every iteration
\* of the main loop the cursors stay within 0..len of their texts and do
\* not move back, the output is only appended to, and i_norm + i_ref
\* increases, so that the loop ends, with the normalized cursor at the end,
\* after at most len(normalized) + len(refined) iterations, for every
\* input, unclosed tags included.
C30_ForwardPassTerminates ==
    [][ /\ i_norm' \in i_norm..Len(normalized)
        /\ i_ref' \in i_ref..Len(refined)
        /\ IsPrefix(result, result')
        /\ i_norm' + i_ref' > i_norm + i_ref ]_vars

\* the loop has ended on texts that both hold an unclosed tag, after
\* moving both cursors
C30_Witness ==
    /\ AlignDone
    /\ \E k \in 1..Len(normalized) :
           normalized[k] = "[" /\ Find(normalized, "]", k - 1) = -1
    /\ \E k \in 1..Len(refined) :
           refined[k] = "[" /\ Find(refined, "]", k - 1) = -1
    /\ i_ref > 0
    /\ Len(result) > 0

====
